---------------------------- MODULE Spec2Model ----------------------------
(***************************************************************************)
(* A model of chess_player/grasp_utilities.py: the grasp / place candidate *)
(* generators, the PickupManager / PlaceManager retry loops, the           *)
(* ObjectManager (collision-world tracker fed by the planning-scene        *)
(* subscription) and ArmPlanner.execute / move_piece / tuck.               *)
(*                                                                         *)
(* Four specifications:                                                    *)
(*   Spec     ArmPlanner.execute, untuck and what they call, with sceneCb  *)
(*            and the getter of the ObjectManager taken as single steps    *)
(*            (FairSpec: the same with the control thread kept running)    *)
(*   SpecOM   the ObjectManager alone, taken statement by statement, with  *)
(*            the mutex (FairSpecOM: the same with fairness)               *)
(*   SpecGen  the candidate generators alone, with the pose object they    *)
(*            share with their caller                                      *)
(*   SpecMove moveToJointPosition alone (MotionManager's, and the one of   *)
(*            moveit_utils.ArmInterface), and ArmInterface.moveToPose,     *)
(*            called with any arguments                                    *)
(*                                                                         *)
(* Numbers.  Python floats are kept as scaled integers:                    *)
(*   angles     in centi-radians      (1.57  -> 157)                       *)
(*   qualities  in 1/10000            (1.0   -> 10000)                     *)
(*   lengths    in micrometres        (0.05715 m -> 57150)                 *)
(* quaternion_from_euler(r, p, y) is kept symbolic as the triple <<r,p,y>>.*)
(* listener.transformPose(frame, p) is kept symbolic as a tagged record.   *)
(***************************************************************************)
EXTENDS Integers, Sequences, FiniteSets, TLC

(***************************************************************************)
(* Bounds of the model (not program constants).                            *)
(***************************************************************************)
\* capacity of the 'collision_object' topic between the publisher and the
\* planning scene; a message published while it is full is dropped
MaxInFlight == 2

(***************************************************************************)
(* Module-level constants of grasp_utilities.py                            *)
(***************************************************************************)
GRIPPER_FRAME == "gripper_link"
FIXED_FRAME == "base_link"
PLAN_ONLY == FALSE
GRIPPER_CLOSED == 10000
GRIPPER_OPEN == 50000
joint_names == << "arm_lift_joint", "arm_shoulder_pan_joint", "arm_upperarm_roll_joint",
                  "arm_shoulder_lift_joint", "arm_elbow_flex_joint", "arm_wrist_flex_joint",
                  "arm_wrist_roll_joint" >>
\* joint positions are never computed with: they are kept as their literals
joints_tucked == << "0.0", "-1.57", "0.0", "-1.7", "1.7", "1.57", "-0.066472500808377785" >>
joints_untucked == << "0.0", "0.0", "0.0", "-1.57", "1.57", "1.57", "-0.066472500808377785" >>
BOARD_THICKNESS == 100000
CHESS_BOARD_FRAME == "chess_board"
\* chess_utilities.SQUARE_SIZE (0.05715 m)
SQUARE_SIZE == 57150

\* Python's None
None == [none |-> TRUE]

(***************************************************************************)
(* str(float) for the floats of the candidate loops, from centi-units.     *)
(***************************************************************************)
Digit(d) == CASE d = 0 -> "0" [] d = 1 -> "1" [] d = 2 -> "2" [] d = 3 -> "3"
              [] d = 4 -> "4" [] d = 5 -> "5" [] d = 6 -> "6" [] d = 7 -> "7"
              [] d = 8 -> "8" [] d = 9 -> "9"

RECURSIVE IntStr(_)
IntStr(n) == IF n < 10 THEN Digit(n) ELSE IntStr(n \div 10) \o Digit(n % 10)

Abs(v) == IF v < 0 THEN -v ELSE v

\* Python 2 str() of a float with at most two decimals: shortest form that
\* keeps at least one digit after the point
StrFloat(c) ==
    LET a == Abs(c)
        fp == a % 100
        frac == IF fp % 10 = 0 THEN Digit(fp \div 10)
                ELSE Digit(fp \div 10) \o Digit(fp % 10)
    IN (IF c < 0 THEN "-" ELSE "") \o IntStr(a \div 100) \o "." \o frac

(***************************************************************************)
(* Helpers of the candidate generators.                                    *)
(***************************************************************************)
getGripperPosture(pose) ==
    [name |-> << "l_gripper_joint", "r_gripper_joint" >>,
     position |-> << pose, pose >>,
     velocity |-> << 0, 0 >>,
     effort |-> << 1, 1 >>]

\* axis: 1 (default) or -1
getGripperTranslation(min_dist, desired, axis) ==
    [axis |-> axis, frame_id |-> GRIPPER_FRAME,
     min_distance |-> min_dist, desired_distance |-> desired]

quaternion_from_euler(r, p, y) == << r, p, y >>

\* the pitch offsets of the outer loop and the yaws of the inner loop
PitchOffsets == << 5, 10, 20, 40 >>
Yaws == << -157, -78, 0, 78, 157 >>

\* LoopPair with the loops nested the other way round: yaw outside, pitch inside
LoopPairYawOuter(n) ==
    [p |-> PitchOffsets[((n - 1) % Len(PitchOffsets)) + 1],
     y |-> Yaws[((n - 1) \div Len(PitchOffsets)) + 1]]

\* the (p, y) pair of the n-th pass (n >= 1) through the body of the nested loops
LoopPair(n) ==
    [p |-> PitchOffsets[((n - 1) \div Len(Yaws)) + 1],
     y |-> Yaws[((n - 1) % Len(Yaws)) + 1]]

\* number of passes through the nested loops
LoopPasses == Len(PitchOffsets) * Len(Yaws)


(***************************************************************************)
(* getGrasps / getPlaceLocations.  A generator is a record: k counts the   *)
(* candidates it has yielded, obj is the one message object it creates on  *)
(* its first resumption and then overwrites and yields again on every      *)
(* later one, pose is the pose_stamped it was created with.                *)
(***************************************************************************)
getGrasps(pose_stamped) ==
    [kind |-> "grasp", k |-> 0, pose |-> pose_stamped, obj |-> None]

getPlaceLocations(pose_stamped) ==
    [kind |-> "place", k |-> 0, pose |-> pose_stamped, obj |-> None]

\* the loops running off their end one pass early
GenDoneEarly(gen) == gen.k >= LoopPasses

\* the generator has run off the end of its loops (StopIteration)
GenDone(gen) == gen.k >= 1 + LoopPasses

\* the first resumption of getGrasps leaving the orientation of the pose
\* as it finds it
GraspFirstKeepsOrientation(pose_stamped) ==
    [id |-> "direct_overhead",
     pre_grasp_posture |-> getGripperPosture(GRIPPER_OPEN),
     grasp_posture |-> getGripperPosture(GRIPPER_CLOSED),
     grasp_pose |-> pose_stamped,
     grasp_quality |-> 10000,
     approach |-> getGripperTranslation(50000, 150000, 1),
     retreat |-> getGripperTranslation(50000, 150000, -1)]

\* lines 90-106: the first resumption of getGrasps
GraspFirst(pose_stamped) ==
    [id |-> "direct_overhead",
     pre_grasp_posture |-> getGripperPosture(GRIPPER_OPEN),
     grasp_posture |-> getGripperPosture(GRIPPER_CLOSED),
     grasp_pose |-> [pose_stamped EXCEPT !.orientation = quaternion_from_euler(0, 157, 0)],
     grasp_quality |-> 10000,
     approach |-> getGripperTranslation(50000, 150000, 1),
     retreat |-> getGripperTranslation(50000, 150000, -1)]

\* lines 110-118: one pass of the nested loops of getGrasps on the object g
GraspPass(g, p, y) ==
    [g EXCEPT !.grasp_pose.orientation = quaternion_from_euler(0, 157 - p, y),
              !.id = StrFloat(p) \o "+" \o StrFloat(y),
              !.grasp_quality = 10000 - (125 * p) - (25 * Abs(y))]

\* lines 122-134: the first resumption of getPlaceLocations
PlaceFirst(pose_stamped) ==
    [id |-> "direct_overhead",
     place_pose |-> [pose_stamped EXCEPT !.orientation = quaternion_from_euler(0, 157, 0)],
     approach |-> getGripperTranslation(50000, 150000, 1),
     retreat |-> getGripperTranslation(50000, 150000, -1),
     post_place_posture |-> getGripperPosture(GRIPPER_OPEN)]

\* a pass of getPlaceLocations turning the hand the other way round
PlacePassMirrored(l, p, y) ==
    [l EXCEPT !.place_pose.orientation = quaternion_from_euler(0, 157 - p, -y),
              !.id = StrFloat(p) \o "+" \o StrFloat(y)]

\* lines 138-144: one pass of the nested loops of getPlaceLocations on l
PlacePass(l, p, y) ==
    [l EXCEPT !.place_pose.orientation = quaternion_from_euler(0, 157 - p, y),
              !.id = StrFloat(p) \o "+" \o StrFloat(y)]

\* next(gen) for a generator that is not done: run to the next yield
GenNext(gen) ==
    IF gen.k = 0
    THEN [gen EXCEPT !.k = 1,
                     !.obj = IF gen.kind = "grasp" THEN GraspFirst(gen.pose)
                             ELSE PlaceFirst(gen.pose)]
    ELSE LET pr == LoopPair(gen.k)
         IN [gen EXCEPT !.k = gen.k + 1,
                        !.obj = IF gen.kind = "grasp" THEN GraspPass(gen.obj, pr.p, pr.y)
                                ELSE PlacePass(gen.obj, pr.p, pr.y)]

\* the pose object a candidate refers to
PoseOf(kind, o) == IF kind = "grasp" THEN o.grasp_pose ELSE o.place_pose

(***************************************************************************)
(* The goals the managers build.                                           *)
(***************************************************************************)
Group == "Arm"
GripperGroup == "Gripper"

\* PickupManager.pickup, lines 159-171
PickupGoal(name, grasp) ==
    [target_name |-> name, group_name |-> Group, end_effector |-> GripperGroup,
     possible_grasps |-> << grasp >>, support_surface_name |-> "table",
     allow_gripper_support_collision |-> TRUE,
     attached_object_touch_links |-> << >>,
     allowed_planning_time |-> 30, plan_only |-> PLAN_ONLY]

\* PlaceManager.place, lines 193-203
PlaceGoal(name, location) ==
    [group_name |-> Group, attached_object_name |-> name,
     place_locations |-> << location >>, support_surface_name |-> "table",
     allow_gripper_support_collision |-> TRUE,
     allowed_planning_time |-> 30, plan_only |-> PLAN_ONLY]

\* IsSuccess testing the status code for truth instead of for 1
IsSuccessTruthy(val) == val # 0

\* the test both retry loops make on a result: error_code.val == 1
IsSuccess(val) == val = 1

\* MotionManager.moveToJointPosition, lines 227-253: the goal
JointGoal(joints, positions, tolerance) ==
    [goal_constraints |->
        << [joint_constraints |->
               [i \in 1..Len(joints) |->
                   [joint_name |-> joints[i], position |-> positions[i],
                    tolerance_above |-> tolerance, tolerance_below |-> tolerance,
                    weight |-> 1]]] >>,
     group_name |-> Group, num_planning_attempts |-> 1,
     allowed_planning_time |-> 15, plan_only |-> PLAN_ONLY,
     look_around |-> FALSE, replan |-> FALSE]

\* request.start_state of a MoveGroupGoal nobody has assigned to
EmptyRobotState == [joint_state |-> "empty"]

\* ArmInterface.moveToJointPosition, arm_interface.py lines 50-78: the goal
ArmJointGoal(joints, positions, tolerance, start_state, plan_only) ==
    [start_state |-> IF start_state # None THEN start_state ELSE EmptyRobotState,
     goal_constraints |->
        << [joint_constraints |->
               [i \in 1..Len(joints) |->
                   [joint_name |-> joints[i], position |-> positions[i],
                    tolerance_above |-> tolerance, tolerance_below |-> tolerance,
                    weight |-> 1]]] >>,
     group_name |-> Group, num_planning_attempts |-> 1,
     allowed_planning_time |-> 15, plan_only |-> plan_only,
     look_around |-> FALSE, replan |-> FALSE]

\* moveToJointPosition answering success whatever the result was
moveToJointPositionReturnsSuccess(result) == [error_code |-> 1]

\* lines 255-256 (arm_interface.py lines 80-81): wait_for_result has
\* returned and the action client holds `result`; the value returned
moveToJointPositionReturn(result) == result

\* arm_interface.py lines 132-133: the value moveToPose returns
moveToPoseReturn(result) == result

\* tolerance * tolerance (arm_interface.py line 96) in floating point, as the
\* literal of the product
ToleranceSquared(tolerance) ==
    CASE tolerance = "0.01" -> "0.0001"
      [] tolerance = "0.1" -> "0.010000000000000002"

\* the default tolerance of moveToJointPosition (0.01), as its literal
DefaultTolerance == "0.01"

\* status codes the external action servers answer with; 1 is SUCCESS
ErrorCodes == {1, -1, 99999}

(***************************************************************************)
(* chess_utilities: squares, moves, the board and the castling extras.     *)
(* A move is its four characters, e.g. << "e", "2", "e", "4" >>.           *)
(***************************************************************************)
WHITE == "WHITE"
BLACK == "BLACK"

\* board.toPosition(pos): the 0-based column and the 1-based rank of "e4"
toPosition(pos) ==
    << CASE pos[1] = "a" -> 0 [] pos[1] = "b" -> 1 [] pos[1] = "c" -> 2
         [] pos[1] = "d" -> 3 [] pos[1] = "e" -> 4 [] pos[1] = "f" -> 5
         [] pos[1] = "g" -> 6 [] pos[1] = "h" -> 7,
       CASE pos[2] = "1" -> 1 [] pos[2] = "2" -> 2 [] pos[2] = "3" -> 3
         [] pos[2] = "4" -> 4 [] pos[2] = "5" -> 5 [] pos[2] = "6" -> 6
         [] pos[2] = "7" -> 7 [] pos[2] = "8" -> 8 >>

\* board.getPiece(col, rank): the piece on the square, or None
getPiece(board, col, rank) ==
    IF << col, rank >> \in DOMAIN board.pieces THEN board.pieces[<< col, rank >>]
    ELSE None

\* castling extras of which one, h1f1, has an extra of its own
castling_extrasChained ==
    ( << "e", "1", "c", "1" >> :> << "a", "1", "d", "1" >> ) @@
    ( << "e", "1", "g", "1" >> :> << "h", "1", "f", "1" >> ) @@
    ( << "h", "1", "f", "1" >> :> << "d", "5", "d", "6" >> ) @@
    ( << "e", "8", "c", "8" >> :> << "a", "8", "d", "8" >> ) @@
    ( << "e", "8", "g", "8" >> :> << "h", "8", "f", "8" >> )

\* the auxiliary rook move of each castling king move
castling_extras ==
    ( << "e", "1", "c", "1" >> :> << "a", "1", "d", "1" >> ) @@
    ( << "e", "1", "g", "1" >> :> << "h", "1", "f", "1" >> ) @@
    ( << "e", "8", "c", "8" >> :> << "a", "8", "d", "8" >> ) @@
    ( << "e", "8", "g", "8" >> :> << "h", "8", "f", "8" >> )

\* getPose without the mirrored layout for the other side
getPoseUnmirrored(col, rank, board, z) ==
    [position |-> [x |-> (col * SQUARE_SIZE) + (SQUARE_SIZE \div 2),
                   y |-> ((rank - 1) * SQUARE_SIZE) + (SQUARE_SIZE \div 2),
                   z |-> z]]

(***************************************************************************)
(* ArmPlanner.getPose, lines 498-509.                                      *)
(***************************************************************************)
getPose(col, rank, board, z) ==
    IF board.side = WHITE
    THEN [position |-> [x |-> (col * SQUARE_SIZE) + (SQUARE_SIZE \div 2),
                        y |-> ((rank - 1) * SQUARE_SIZE) + (SQUARE_SIZE \div 2),
                        z |-> z]]
    ELSE [position |-> [x |-> ((7 - col) * SQUARE_SIZE) + (SQUARE_SIZE \div 2),
                        y |-> ((8 - rank) * SQUARE_SIZE) + (SQUARE_SIZE \div 2),
                        z |-> z]]

(***************************************************************************)
(* The boards and moves execute is called with.  A piece is a ChessPiece   *)
(* message as perception reports it: a frame and a pose on the board, at   *)
(* the centre of its square as the robot's side sees it, 25 mm high.       *)
(***************************************************************************)
PerceivedPiece(side, sq) ==
    [frame_id |-> CHESS_BOARD_FRAME,
     pose |-> getPose(toPosition(sq)[1], toPosition(sq)[2], [side |-> side], 25000)]

MakeBoard(side, squares) ==
    [side |-> side,
     pieces |-> [c \in {toPosition(sq) : sq \in squares} |->
                    PerceivedPiece(side, CHOOSE sq \in squares : toPosition(sq) = c)]]

Boards ==
    { MakeBoard(WHITE, { << "e", "2" >>, << "e", "1" >>, << "h", "1" >>, << "d", "5" >> }),
      MakeBoard(WHITE, { << "e", "4" >>, << "e", "1" >>, << "h", "1" >>, << "d", "5" >> }),
      MakeBoard(BLACK, { << "e", "7" >>, << "e", "8" >>, << "a", "8" >>, << "d", "4" >> }) }

Moves ==
    { << "e", "2", "e", "4" >>, << "e", "4", "d", "5" >>, << "e", "1", "g", "1" >>,
      << "e", "7", "e", "5" >>, << "e", "8", "c", "8" >> }

\* snapshots' attached-object lists
AttachedLists == { << >>, << "piece" >> }

(***************************************************************************)
(* listener.transformPose(frame, p): the pose p re-expressed in frame.     *)
(***************************************************************************)
transformPose(frame, p) ==
    [frame_id |-> frame,
     position |-> [from |-> p.frame_id, at |-> p.position],
     orientation |-> p.orientation]

\* ArmInterface.moveToPose, arm_interface.py lines 85-129: the goal, with one
\* position constraint (a sphere at the transformed pose) and one orientation
\* constraint on the link gripper_frame; its start_state is never assigned
ArmPoseGoal(pose_stamped, gripper_frame, tolerance, plan_only) ==
    LET pose_transformed == transformPose(FIXED_FRAME, pose_stamped)
    IN [start_state |-> EmptyRobotState,
        goal_constraints |->
           << [joint_constraints |-> << >>,
               position_constraints |->
                  << [header |-> [frame_id |-> FIXED_FRAME],
                      link_name |-> gripper_frame,
                      constraint_region |->
                         [primitives |->
                             << [type |-> "SPHERE",
                                 dimensions |-> << ToleranceSquared(tolerance) >>] >>,
                          primitive_poses |->
                             << [position |-> pose_transformed.position,
                                 orientation |-> pose_transformed.orientation] >>],
                      weight |-> 1] >>,
               orientation_constraints |->
                  << [header |-> [frame_id |-> FIXED_FRAME],
                      orientation |-> pose_transformed.orientation,
                      link_name |-> gripper_frame,
                      absolute_x_axis_tolerance |-> tolerance,
                      absolute_y_axis_tolerance |-> tolerance,
                      absolute_z_axis_tolerance |-> tolerance,
                      weight |-> 1] >>] >>,
        group_name |-> Group, num_planning_attempts |-> 1,
        allowed_planning_time |-> 15, plan_only |-> plan_only,
        look_around |-> FALSE, replan |-> FALSE]

(***************************************************************************)
(* State.                                                                  *)
(*                                                                         *)
(* Control thread (the caller of ArmPlanner.execute):                      *)
(*   pc       where it is suspended: "idle" (no call in progress),         *)
(*            "remove" / "addBox" (in the poll loop of ObjectManager),     *)
(*            "pickup" / "place" / "tuck" (in wait_for_result of the       *)
(*            action client), "sleep" (line 449), "extra_ret" (the         *)
(*            recursive execute of line 492 has just returned), "untuck"   *)
(*            (in wait_for_result, called by untuck)                       *)
(*   stack    the activations of execute, outermost first                  *)
(*   mp       the activation of move_piece, or None                        *)
(*   om       the activation (its argument `name`) of the manager method   *)
(*            it is in: remove, addBox, pickup or place; or None.  In the  *)
(*            loops of remove and addBox, om.got tells whether the getter  *)
(*            of the loop test has returned and om.known is its copy       *)
(*   gen      the generator the running retry loop iterates                *)
(*   success  ArmPlanner.success                                           *)
(*   board    the board the running execute was called with                *)
(* ObjectManager, shared with the subscriber thread:                       *)
(*   collision, attached   the lists _collision and _attached              *)
(*   inflight  commands published on 'collision_object' that the planning  *)
(*             scene has not yet reported back                             *)
(* Observations (written, never read, by the program):                     *)
(*   obs       the goals sent and results received by the running or the   *)
(*             just returned pickup / place call                           *)
(*   last_ext  the last message the control thread sent out                *)
(*   ret       what the execute call that has just returned returned       *)
(*   none_returned  some execute call has returned None since __init__     *)
(* ObjectManager taken statement by statement (specification SpecOM):      *)
(*   mutex    who holds ObjectManager._mutex: "free", "cb" or "reader"     *)
(*   cb       the running (or the last) activation of sceneCb              *)
(*   client   a thread calling addBox / remove directly                    *)
(* The candidate generators taken alone (specification SpecGen):           *)
(*   pose_in  the PoseStamped object the generators are created with       *)
(*   it       the consumer of the generators                               *)
(* moveToJointPosition, moveToPose taken alone (specification SpecMove):   *)
(*   mv       the caller of the method and the call it is in               *)
(***************************************************************************)
VARIABLES pc, stack, mp, om, gen, success, board,
          collision, attached, inflight,
          obs, last_ext, ret, none_returned,
          mutex, cb, client,
          pose_in, it,
          mv

ctlVars == << pc, stack, mp, om, gen, success, board >>
objVars == << collision, attached >>
obsVars == << obs, last_ext, ret, none_returned >>
omVars == << mutex, cb, client >>
genVars == << pose_in, it >>
moveVars == << mv >>
sideVars == << omVars, genVars, moveVars >>
vars == << pc, stack, mp, om, gen, success, board,
           collision, attached, inflight, obs, last_ext, ret, none_returned,
           mutex, cb, client, pose_in, it, mv >>

NoObs == [kind |-> "none", sent |-> << >>, results |-> << >>, ret |-> "none"]
NoRet == [valid |-> FALSE]

\* what the control thread may write, as one record
Cur ==
    [pc |-> pc, stack |-> stack, mp |-> mp, om |-> om, gen |-> gen,
     success |-> success, inflight |-> inflight,
     obs |-> obs, last_ext |-> last_ext, ret |-> ret, none_returned |-> none_returned]

\* (s is evaluated once, as the value t)
Assign(s) ==
    \E t \in { s } :
       /\ pc' = t.pc
       /\ stack' = t.stack
       /\ mp' = t.mp
       /\ om' = t.om
       /\ gen' = t.gen
       /\ success' = t.success
       /\ inflight' = t.inflight
       /\ obs' = t.obs
       /\ last_ext' = t.last_ext
       /\ ret' = t.ret
       /\ none_returned' = t.none_returned

Top(s) == s.stack[Len(s.stack)]

\* append an entry to the log of the running execute activation
Logged(s, what) ==
    [s EXCEPT !.stack[Len(s.stack)].log = Append(@, << Top(s).site, what >>)]

(***************************************************************************)
(* ObjectManager: publishing, remove and addBox (lines 325-367).           *)
(***************************************************************************)
\* self._pub.publish(o)
publish(s, operation, name) ==
    [s EXCEPT !.inflight = IF Len(@) < MaxInFlight
                           THEN Append(@, [operation |-> operation, id |-> name])
                           ELSE @,
              !.last_ext = [kind |-> "collision_object", operation |-> operation,
                            id |-> name]]

\* the activation of remove or addBox about to call getKnownCollisionObjects
\* for the test of its loop: `got` tells whether the getter has returned
\* its copy, `known`
Polling(name) == [name |-> name, got |-> FALSE, known |-> << >>]

\* lines 349-350 / 366-367: a turn of the loop publishes again and sleeps,
\* up to the getter of the next test
pollAgain(s, operation, name) ==
    [publish(s, operation, name) EXCEPT !.om = Polling(name)]

\* remove(name) up to its loop: lines 357-363
removeEntry(s, name) ==
    [publish(s, "REMOVE", name) EXCEPT !.pc = "remove", !.om = Polling(name)]

\* addBox(name, ...) up to its loop: lines 326-346
addBoxEntry(s, name) ==
    [publish(s, "ADD", name) EXCEPT !.pc = "addBox", !.om = Polling(name)]

\* x in l, for a Python list l
InList(x, l) == \E i \in 1..Len(l) : l[i] = x

\* remove never leaving its loop
removeWaitsForever(name, known) == TRUE

\* addBox never entering its loop
addBoxNeverWaits(name, known) == FALSE

\* remove returning without waiting for the feed
removeNeverWaits(name, known) == FALSE

\* the loop condition of remove (line 364) on the copy the getter returned
removeWaits(name, known) == InList(name, known)

\* the loop condition of addBox (line 347) on the copy the getter returned
addBoxWaits(name, known) == ~ InList(name, known)

(***************************************************************************)
(* PickupManager.pickup and PlaceManager.place (lines 155-211).            *)
(***************************************************************************)
\* the candidate's pose is the very object move_piece passed (g.grasp_pose =
\* pose_stamped, line 95; l.place_pose = pose_stamped, line 125): what the
\* generator has written into it shows in move_piece's local pt and in the
\* generator's own pose_stamped
PoseShared(s) ==
    [s EXCEPT !.mp.pt = PoseOf(s.gen.kind, s.gen.obj),
              !.gen.pose = PoseOf(s.gen.kind, s.gen.obj)]

\* the body of the pickup loop for the candidate the generator has yielded:
\* build the goal and send it (lines 159-172)
pickupSend(s, name) ==
    [PoseShared(s) EXCEPT
              !.pc = "pickup",
              !.last_ext = [kind |-> "pickup", goal |-> PickupGoal(name, s.gen.obj)],
              !.obs.sent = Append(@, s.gen.obj.id)]

\* pickup(name, pose_stamped) up to its first wait_for_result
pickupEntry(s, name, pose_stamped) ==
    pickupSend([s EXCEPT !.gen = GenNext(getGrasps(pose_stamped)),
                         !.om = [name |-> name],
                         !.obs = [NoObs EXCEPT !.kind = "pickup"]],
               name)

\* the body of the place loop (lines 193-204)
placeSend(s, name) ==
    [PoseShared(s) EXCEPT
              !.pc = "place",
              !.last_ext = [kind |-> "place", goal |-> PlaceGoal(name, s.gen.obj)],
              !.obs.sent = Append(@, s.gen.obj.id)]

\* place(name, pose_stamped) up to its first wait_for_result
placeEntry(s, name, pose_stamped) ==
    placeSend([s EXCEPT !.gen = GenNext(getPlaceLocations(pose_stamped)),
                        !.om = [name |-> name],
                        !.obs = [NoObs EXCEPT !.kind = "place"]],
              name)

(***************************************************************************)
(* MotionManager.moveToJointPosition (lines 226-256) and ArmPlanner.tuck.  *)
(***************************************************************************)
\* up to wait_for_result: build the goal and send it
moveToJointPosition(s, joints, positions, tolerance) ==
    [s EXCEPT !.pc = "tuck",
              !.last_ext = [kind |-> "move_group",
                            goal |-> JointGoal(joints, positions, tolerance)]]

\* tuck sending the arm to the untucked configuration
tuckUntucked(s) == moveToJointPosition(s, joint_names, joints_untucked, DefaultTolerance)

\* ArmPlanner.untuck, lines 526-527, up to wait_for_result
untuck(s) ==
    [moveToJointPosition(s, joint_names, joints_untucked, DefaultTolerance)
        EXCEPT !.pc = "untuck"]

\* ArmPlanner.tuck, lines 523-524
tuck(s) == moveToJointPosition(s, joint_names, joints_tucked, DefaultTolerance)

(***************************************************************************)
(* ArmPlanner.move_piece (lines 418-458), cut at its blocking calls.       *)
(* mp.step names the call it is blocked in.                                *)
(***************************************************************************)
\* the PoseStamped p of move_piece with its position set to (x, y, z)
BoardPose(x, y, z) ==
    [frame_id |-> CHESS_BOARD_FRAME,
     position |-> [x |-> x, y |-> y, z |-> z],
     orientation |-> << 0, 0, 0, 1 >>]

\* lines 418-421: entry, up to the loop of remove('table')
move_pieceEntry(s, start_pose, end_pose) ==
    removeEntry([Logged(s, "world") EXCEPT
                    !.mp = [step |-> "rm_table", start_pose |-> start_pose,
                            end_pose |-> end_pose, pt |-> None]],
                "table")

\* move_piece going from remove('table') straight on to remove('piece')
move_pieceSkipsTable(s) ==
    removeEntry([s EXCEPT !.mp.step = "rm_piece"], "piece")

\* lines 422-433: after remove('table'), up to the loop of addBox('table')
move_pieceAddTable(s) ==
    LET pt == transformPose(FIXED_FRAME,
                  BoardPose(SQUARE_SIZE * 4, SQUARE_SIZE * 4, -(BOARD_THICKNESS \div 2)))
    IN addBoxEntry([s EXCEPT !.mp.step = "add_table", !.mp.pt = pt], "table")

\* lines 434-436: after addBox('table'), up to the loop of remove('piece')
move_pieceRemovePiece(s) ==
    removeEntry([s EXCEPT !.mp.step = "rm_piece"], "piece")

\* lines 437-443: after remove('piece'), up to the loop of addCube('piece')
move_pieceAddPiece(s) ==
    LET pt == transformPose(FIXED_FRAME,
                  BoardPose(s.mp.start_pose.position.x, s.mp.start_pose.position.y, 30000))
    IN addBoxEntry([s EXCEPT !.mp.step = "add_piece", !.mp.pt = pt], "piece")

\* lines 445-447: after addCube('piece'), up to the first wait of pickup
move_piecePick(s) ==
    pickupEntry([Logged(s, "pickup") EXCEPT !.mp.step = "pickup"], "piece", s.mp.pt)

\* lines 450-457: after the sleep, up to the first wait of place
move_piecePlace(s) ==
    LET pt == transformPose(FIXED_FRAME,
                  BoardPose(s.mp.end_pose.position.x, s.mp.end_pose.position.y, 30000))
    IN placeEntry([Logged(s, "place") EXCEPT !.mp.step = "place", !.mp.pt = pt],
                  "piece", pt)

\* move_piece going on to place whatever pickup returned
move_pieceNeverStops(picked) == FALSE

\* what move_piece makes of the value pickup returned: FALSE is returned at
\* once (lines 447-448), otherwise it goes on
move_pieceStopsAfterPickup(picked) == ~ picked

\* the value move_piece returns once place has returned `placed` (lines 457-458)
move_pieceAfterPlace(placed) == TRUE

(***************************************************************************)
(* ArmPlanner.execute (lines 460-496), cut at its blocking calls.          *)
(* An activation is a record: move, site (the call it is blocked in:       *)
(* "capture" line 476, "primary" line 485, "extra" line 492, "tuck"),      *)
(* fr and to_pose (its locals), result (the value it is about to return),  *)
(* extra (what line 492's call returned), and two observations: log (the   *)
(* calls it has made so far) and success0 (the flag when it was entered).  *)
(***************************************************************************)
\* Python's `not v` for a Pose or None
Not(v) == v = None

\* lines 482-485: the primary sub-move, up to the loop of remove('table')
executePrimary(s, b) ==
    LET f == Top(s)
        t == toPosition(SubSeq(f.move, 3, 4))
        to_pose == getPose(t[1], t[2], b, f.fr.pose.position.z)
    IN move_pieceEntry([s EXCEPT !.stack[Len(s.stack)].site = "primary",
                                 !.stack[Len(s.stack)].to_pose = to_pose],
                       f.fr.pose, to_pose)

\* lines 471-475: the off-board pose a captured piece is put at
OffBoard(fr) ==
    [position |-> [x |-> -2 * SQUARE_SIZE, y |-> SQUARE_SIZE, z |-> fr.pose.position.z]]

\* is this a capture? (line 470)
IsCapture(to) == to # None

\* lines 460-476: entry of execute(move, board), up to the loop of remove('table')
executeEntry(s, move, b) ==
    LET f == toPosition(SubSeq(move, 1, 2))
        t == toPosition(SubSeq(move, 3, 4))
        fr == getPiece(b, f[1], f[2])
        to == getPiece(b, t[1], t[2])
        frame == [move |-> move, site |-> "capture", fr |-> fr, to_pose |-> None,
                  result |-> None, extra |-> [called |-> FALSE],
                  log |-> << >>, success0 |-> s.success]
        s1 == [s EXCEPT !.stack = Append(@, frame), !.ret = NoRet]
    IN IF IsCapture(to)
       THEN move_pieceEntry(s1, to.pose, OffBoard(fr))
       ELSE executePrimary(s1, b)

\* executeAbort without the assignment to self.success
executeAbortKeepsFlag(s) ==
    [tuck(s) EXCEPT
        !.stack[Len(s.stack)].site = "tuck",
        !.stack[Len(s.stack)].result = None]

\* lines 477-480 and 486-489: a sub-move failed
executeAbort(s) ==
    [tuck([s EXCEPT !.success = FALSE]) EXCEPT
        !.stack[Len(s.stack)].site = "tuck",
        !.stack[Len(s.stack)].result = None]

\* lines 495-496: tuck and return to.pose
executeFinish(s) ==
    [tuck(s) EXCEPT
        !.stack[Len(s.stack)].site = "tuck",
        !.stack[Len(s.stack)].result = Top(s).to_pose]

\* is there a castling extra to carry out? (line 491)
HasExtra(move) == move \in DOMAIN castling_extras

\* execute resumed with the value r that move_piece returned
executeAfterMovePiece(s, r, b) ==
    LET s1 == [s EXCEPT !.mp = None]
        f == Top(s)
    IN IF f.site = "capture"
       THEN IF ~ r THEN executeAbort(s1) ELSE executePrimary(s1, b)
       ELSE IF ~ r THEN executeAbort(s1)
            ELSE IF HasExtra(f.move)
                 THEN executeEntry(Logged([s1 EXCEPT !.stack[Len(s.stack)].site = "extra"],
                                          "call"),
                                   castling_extras[f.move], b)
                 ELSE executeFinish(s1)

\* executeAfterExtra treating a failed extra like a failed sub-move
executeAfterExtraAborts(s, r) ==
    LET s1 == [s EXCEPT !.stack[Len(s.stack)].extra = [called |-> TRUE, value |-> r],
                        !.ret = NoRet]
    IN IF Not(r) THEN executeAbort(s1) ELSE executeFinish(s1)

\* lines 492-496: execute resumed with the value r its recursive call returned
\* (a failure is only logged)
executeAfterExtra(s, r) ==
    executeFinish([s EXCEPT !.stack[Len(s.stack)].extra = [called |-> TRUE, value |-> r],
                            !.ret = NoRet])

(***************************************************************************)
(* Actions of the control thread.  Each runs the thread from one blocking  *)
(* point to the next.                                                      *)
(***************************************************************************)
\* sceneCb is not running and has never run
NoCb ==
    [phase |-> "idle", events |-> << >>, att |-> << >>, i |-> 0, j |-> 0,
     before |-> << >>, att_before |-> << >>]

\* the client is in no call and has made none
NoClient ==
    [phase |-> "idle", op |-> "none", name |-> "none", l |-> << >>, at |-> << >>,
     calls |-> 0, last |-> None, twice |-> FALSE, first |-> { }, pairs |-> { }]

\* no generator has been created
NoIt ==
    [gen |-> None, seen |-> << >>, prev_kind |-> "none", prev |-> << >>]

\* neither moveToJointPosition nor moveToPose has been called
NoMove ==
    [phase |-> "idle", class |-> "none", method |-> "none",
     joints |-> << >>, positions |-> << >>,
     pose_stamped |-> None, gripper_frame |-> "none",
     tolerance |-> "none", start_state |-> None, plan_only |-> FALSE,
     sent |-> << >>, result |-> None, returned |-> None]

\* the state after construction, but for the input of the generators
InitBut ==
    /\ pc = "idle"
    /\ stack = << >>
    /\ mp = None
    /\ om = None
    /\ gen = None
    /\ success = TRUE
    /\ board = None
    /\ collision = << >>
    /\ attached = << >>
    /\ inflight = << >>
    /\ obs = NoObs
    /\ last_ext = None
    /\ ret = NoRet
    /\ none_returned = FALSE
    /\ mutex = "free"
    /\ cb = NoCb
    /\ client = NoClient
    /\ it = NoIt
    /\ mv = NoMove

Init ==
    /\ InitBut
    /\ pose_in = None

\* ObjectManager.getKnownCollisionObjects, lines 388-392: a copy of the list
getKnownCollisionObjects == collision

\* the control thread, in the loop test of remove or addBox (lines 364, 347),
\* calls getKnownCollisionObjects and gets its copy; the mutex is free again
\* before the copy is tested
GetKnown ==
    /\ pc \in { "remove", "addBox" }
    /\ ~ om.got
    /\ om' = [om EXCEPT !.got = TRUE, !.known = getKnownCollisionObjects]
    /\ UNCHANGED << pc, stack, mp, gen, success, board, inflight, objVars, obsVars,
                    sideVars >>

\* the caller calls execute(move, b) with a move whose piece is on the board
Execute ==
    /\ pc = "idle"
    /\ \E move \in Moves, b \in Boards :
          /\ getPiece(b, toPosition(SubSeq(move, 1, 2))[1],
                         toPosition(SubSeq(move, 1, 2))[2]) # None
          /\ board' = b
          /\ Assign(executeEntry([Cur EXCEPT !.obs = NoObs], move, b))
    /\ UNCHANGED << objVars, sideVars >>

\* the test of the loop of remove on the copy the getter returned, and one
\* turn of the loop (lines 364-367), or its end and what move_piece does next
RemovePoll ==
    /\ pc = "remove"
    /\ om.got
    /\ LET s == [Cur EXCEPT !.obs = NoObs]
       IN IF removeWaits(om.name, om.known)
          THEN Assign(pollAgain(s, "REMOVE", om.name))
          ELSE IF mp.step = "rm_table"
               THEN Assign(move_pieceAddTable(s))
               ELSE Assign(move_pieceAddPiece(s))
    /\ UNCHANGED << board, objVars, sideVars >>

\* the test of the loop of addBox on the copy the getter returned, and one
\* turn of the loop (lines 347-350), or its end and what move_piece does next
AddPoll ==
    /\ pc = "addBox"
    /\ om.got
    /\ LET s == [Cur EXCEPT !.obs = NoObs]
       IN IF addBoxWaits(om.name, om.known)
          THEN Assign(pollAgain(s, "ADD", om.name))
          ELSE IF mp.step = "add_table"
               THEN Assign(move_pieceRemovePiece(s))
               ELSE Assign(move_piecePick(s))
    /\ UNCHANGED << board, objVars, sideVars >>

\* pickup returns r to move_piece (lines 447-449)
pickupReturn(s, r, b) ==
    LET s1 == Logged([s EXCEPT !.obs.ret = IF r THEN "True" ELSE "False",
                               !.om = None, !.gen = None],
                     IF r THEN "pickup_ok" ELSE "pickup_failed")
    IN IF move_pieceStopsAfterPickup(r)
       THEN executeAfterMovePiece(Logged(s1, "ret_false"), FALSE, b)
       ELSE [s1 EXCEPT !.pc = "sleep", !.mp.step = "sleep"]

\* the result of the pickup goal arrives (lines 173-179)
PickupResult ==
    /\ pc = "pickup"
    /\ \E val \in ErrorCodes :
          LET s == [Cur EXCEPT !.obs.results = Append(@, val = 1)]
          IN IF IsSuccess(val)
             THEN Assign(pickupReturn(s, TRUE, board))
             ELSE IF GenDone(gen)
                  THEN Assign(pickupReturn(s, FALSE, board))
                  ELSE Assign(pickupSend([s EXCEPT !.gen = GenNext(gen)], om.name))
    /\ UNCHANGED << board, objVars, sideVars >>

\* rospy.sleep(1.0) of line 449 ends
Sleep ==
    /\ pc = "sleep"
    /\ Assign(move_piecePlace([Cur EXCEPT !.obs = NoObs]))
    /\ UNCHANGED << board, objVars, sideVars >>

\* place returns r to move_piece (lines 457-458)
placeReturn(s, r, b) ==
    LET s1 == Logged([s EXCEPT !.obs.ret = IF r THEN "True" ELSE "False",
                               !.om = None, !.gen = None],
                     IF r THEN "place_ok" ELSE "place_failed")
        v == move_pieceAfterPlace(r)
    IN executeAfterMovePiece(Logged(s1, IF v THEN "ret_true" ELSE "ret_false"), v, b)

\* the result of the place goal arrives (lines 205-211)
PlaceResult ==
    /\ pc = "place"
    /\ \E val \in ErrorCodes :
          LET s == [Cur EXCEPT !.obs.results = Append(@, val = 1)]
          IN IF IsSuccess(val)
             THEN Assign(placeReturn(s, TRUE, board))
             ELSE IF GenDone(gen)
                  THEN Assign(placeReturn(s, FALSE, board))
                  ELSE Assign(placeSend([s EXCEPT !.gen = GenNext(gen)], om.name))
    /\ UNCHANGED << board, objVars, sideVars >>

\* the result of the tuck goal arrives: moveToJointPosition, tuck and
\* execute return (lines 255-256, 480 / 489 / 496)
TuckResult ==
    /\ pc = "tuck"
    /\ \E val \in ErrorCodes :
          Assign([Cur EXCEPT
                    !.obs = NoObs,
                    !.ret = [valid |-> TRUE, value |-> Top(Cur).result,
                             frame |-> Top(Cur), depth |-> Len(stack)],
                    !.none_returned = @ \/ Top(Cur).result = None,
                    !.stack = SubSeq(stack, 1, Len(stack) - 1),
                    !.pc = IF Len(stack) = 1 THEN "idle" ELSE "extra_ret"])
    /\ UNCHANGED << board, objVars, sideVars >>

\* the caller calls untuck() (a public method execute itself never calls)
Untuck ==
    /\ pc = "idle"
    /\ Assign(untuck([Cur EXCEPT !.obs = NoObs, !.ret = NoRet]))
    /\ UNCHANGED << board, objVars, sideVars >>

\* the result of the untuck goal arrives: moveToJointPosition returns it and
\* untuck drops it and returns None (lines 255-256, 527)
UntuckResult ==
    /\ pc = "untuck"
    /\ \E val \in ErrorCodes :
          Assign([Cur EXCEPT !.pc = "idle"])
    /\ UNCHANGED << board, objVars, sideVars >>

\* the recursive call of line 492 has returned
ExtraReturn ==
    /\ pc = "extra_ret"
    /\ Assign(executeAfterExtra(Cur, ret.value))
    /\ UNCHANGED << board, objVars, sideVars >>

(***************************************************************************)
(* The subscriber thread: ObjectManager.sceneCb (lines 369-386).           *)
(***************************************************************************)
\* list.remove(x) dropping the first element when there is no x
ListRemoveOrPop(l, x) ==
    IF \E k \in 1..Len(l) : l[k] = x
    THEN LET k == CHOOSE k \in 1..Len(l) :
                     l[k] = x /\ \A m \in 1..(k - 1) : l[m] # x
         IN SubSeq(l, 1, k - 1) \o SubSeq(l, k + 1, Len(l))
    ELSE IF l = << >> THEN l ELSE Tail(l)

\* list.remove(x): drop the first x; the list itself when there is none
\* (the ValueError is caught and passed over)
RECURSIVE ListRemove(_, _)
ListRemove(l, x) ==
    IF l = << >> THEN l
    ELSE IF Head(l) = x THEN Tail(l)
         ELSE << Head(l) >> \o ListRemove(Tail(l), x)

\* an ADD event taking the identifier out when it is already in the list
ApplyEventToggle(l, e) ==
    IF e.operation = "ADD"
    THEN (IF \E k \in 1..Len(l) : l[k] = e.id
          THEN ListRemove(l, e.id) ELSE Append(l, e.id))
    ELSE IF e.operation = "REMOVE" THEN ListRemove(l, e.id)
    ELSE l

\* lines 373-381: the body of the loop over msg.world.collision_objects
ApplyEvent(l, e) ==
    IF e.operation = "ADD" THEN Append(l, e.id)
    ELSE IF e.operation = "REMOVE" THEN ListRemove(l, e.id)
    ELSE l

\* lines 372-381: the loop over msg.world.collision_objects
RECURSIVE ApplyEvents(_, _)
ApplyEvents(l, events) ==
    IF events = << >> THEN l
    ELSE ApplyEvents(ApplyEvent(l, Head(events)), Tail(events))

\* the planning scene reports the first n commands in flight, and the
\* objects attached to the robot, in one snapshot
SceneCb ==
    \E n \in 0..Len(inflight), att \in AttachedLists :
       /\ collision' = ApplyEvents(collision, SubSeq(inflight, 1, n))
       /\ attached' = att
       /\ inflight' = SubSeq(inflight, n + 1, Len(inflight))
       /\ UNCHANGED << ctlVars, obsVars, sideVars >>

Next ==
    \/ Execute
    \/ GetKnown
    \/ RemovePoll
    \/ AddPoll
    \/ PickupResult
    \/ Sleep
    \/ PlaceResult
    \/ TuckResult
    \/ Untuck
    \/ UntuckResult
    \/ ExtraReturn
    \/ SceneCb

Spec == Init /\ [][Next]_vars

\* the planning scene reports at least one of the commands in flight
SceneCbDelivers == SceneCb /\ inflight' # inflight

\* Spec with the control thread kept running: a thread that can take a step
\* of its own (a turn of a poll loop after its sleep, the return from
\* rospy.sleep, the return of the recursive call) takes it.  Nothing is
\* asked of the planning scene or of the action servers, for which the code
\* waits without a timeout.
FairSpec ==
    /\ Spec
    /\ WF_vars(GetKnown)
    /\ WF_vars(RemovePoll)
    /\ WF_vars(AddPoll)
    /\ WF_vars(Sleep)
    /\ WF_vars(ExtraReturn)

(***************************************************************************)
(* ObjectManager statement by statement (lines 325-398).  A client thread  *)
(* calls addBox, remove and getKnownAttachedObjects directly; sceneCb and  *)
(* the getters take and release the mutex in steps of their own.           *)
(*   cb.phase      "idle", "acquire" (blocked in line 371), "events" (the  *)
(*                 loop of lines 372-381), "attached" (the loop of lines   *)
(*                 383-385)                                                *)
(*   cb.events, cb.att   the snapshot msg it was called with               *)
(*   cb.i, cb.j    the positions of its two loops                          *)
(*   cb.before, cb.att_before   the two lists as it found them (observed)  *)
(*   client.phase  "idle", "get" (blocked in line 389 / 395), "locked"     *)
(*                 (holding the mutex), "test" (the getter has returned l) *)
(*   client.l      the copy the getter returned                            *)
(*   client.at     the list as the last whole snapshot left it, at the     *)
(*                 moment of the copy (observed)                           *)
(*   client.calls  the number of calls it has made                         *)
(*   client.last   the last call that has returned, with the members of    *)
(*                 _collision at its return (observed)                     *)
(*                 and whether its identifier was a member when the call   *)
(*                 before it returned, `held` (observed)                   *)
(*   client.twice  the last two calls that have returned were the same     *)
(*                 call; client.first is then the members of _collision    *)
(*                 when the first of them returned (observed)              *)
(*   client.pairs  the calls that have returned twice in a row, each with  *)
(*                 `held` of the first of the two (observed)               *)
(***************************************************************************)
\* the number of calls the client makes
MaxCalls == 2

\* the number of calls it makes where only addBox and remove are called
\* (specification SpecOMTwice)
MaxCallsTwice == 4

\* the identifiers the client passes
Names == { "table", "piece" }

\* what the client calls
Ops == { "addBox", "remove", "getKnownAttachedObjects" }

\* the members of a Python list
Members(l) == { l[k] : k \in 1..Len(l) }

\* the topic after self._pub.publish(o)
Published(operation, name) ==
    publish([inflight |-> inflight, last_ext |-> None], operation, name).inflight

\* o.operation of the message addBox (line 344) and remove (line 361) build
OperationOf(op) == IF op = "addBox" THEN "ADD" ELSE "REMOVE"

\* a list that is kept where line 382 starts a new one
ResetListKeeps(l) == l

\* self._attached = list(): the attribute is bound to a new, empty list
ResetList(l) == << >>

\* a lock that can always be taken
MutexAlwaysFree(m) == TRUE

\* self._mutex.acquire() returns only when nobody holds the lock
MutexFree(m) == m = "free"

\* sceneCb is between its acquire and its release
CbInside == cb.phase \in { "events", "attached" }

\* the client is between the acquire and the release of a getter
ReaderInside == client.phase = "locked"

\* the client calls one of the methods `ops`, `limit` calls at most: addBox
\* and remove publish once before their loop (lines 346, 363), then all
\* three call a getter
ClientCalls(limit, ops) ==
    /\ client.phase = "idle"
    /\ client.calls < limit
    /\ \E op \in ops, name \in Names :
          /\ op = "getKnownAttachedObjects" => name = "piece"
          /\ client' = [client EXCEPT !.phase = "get", !.op = op, !.name = name,
                                       !.calls = client.calls + 1]
          /\ inflight' = IF op = "getKnownAttachedObjects" THEN inflight
                         ELSE Published(OperationOf(op), name)
    /\ UNCHANGED << ctlVars, objVars, obsVars, mutex, cb, genVars, moveVars >>

ClientCall == ClientCalls(MaxCalls, Ops)

\* lines 389 / 395: the getter takes the mutex
GetAcquire ==
    /\ client.phase = "get"
    /\ MutexFree(mutex)
    /\ mutex' = "reader"
    /\ client' = [client EXCEPT !.phase = "locked"]
    /\ UNCHANGED << ctlVars, objVars, inflight, obsVars, cb, genVars, moveVars >>

\* lines 390-392 / 396-398: the getter copies the list, releases the mutex
\* and returns the copy
GetCopy ==
    /\ client.phase = "locked"
    /\ client' = [client EXCEPT
                    !.phase = "test",
                    !.l = IF client.op = "getKnownAttachedObjects"
                          THEN attached ELSE collision,
                    !.at = IF client.op = "getKnownAttachedObjects"
                           THEN (IF CbInside THEN cb.att_before ELSE attached)
                           ELSE (IF CbInside THEN cb.before ELSE collision)]
    /\ mutex' = "free"
    /\ UNCHANGED << ctlVars, objVars, inflight, obsVars, cb, genVars, moveVars >>

\* the client's call returns
ClientReturns ==
    LET again == /\ client.last # None
                 /\ client.last.op = client.op
                 /\ client.last.name = client.name
    IN [client EXCEPT !.phase = "idle", !.l = << >>, !.at = << >>,
                      !.last = [op |-> client.op, name |-> client.name,
                                members |-> Members(collision),
                                held |-> /\ client.last # None
                                         /\ client.name \in client.last.members],
                      !.twice = again,
                      !.first = IF again THEN client.last.members ELSE { },
                      !.pairs = IF again
                                THEN @ \cup { [op |-> client.op, name |-> client.name,
                                               held |-> client.last.held] }
                                ELSE @]

\* lines 347-350 / 364-367: the loop test on the copy; either publish
\* again and sleep, or return
ClientTest ==
    /\ client.phase = "test"
    /\ IF \/ client.op = "addBox" /\ addBoxWaits(client.name, client.l)
          \/ client.op = "remove" /\ removeWaits(client.name, client.l)
       THEN /\ inflight' = Published(OperationOf(client.op), client.name)
            /\ client' = [client EXCEPT !.phase = "get"]
       ELSE /\ inflight' = inflight
            /\ client' = ClientReturns
    /\ UNCHANGED << ctlVars, objVars, obsVars, mutex, cb, genVars, moveVars >>

\* the planning scene publishes a snapshot: the first n commands in flight
\* and the attached objects; rospy calls sceneCb(msg), one call at a time
SceneCbCalled(n, att) ==
    /\ cb.phase = "idle"
    /\ cb' = [cb EXCEPT !.phase = "acquire", !.events = SubSeq(inflight, 1, n),
                        !.att = att, !.i = 1, !.j = 1]
    /\ inflight' = SubSeq(inflight, n + 1, Len(inflight))
    /\ UNCHANGED << ctlVars, objVars, obsVars, mutex, client, genVars, moveVars >>

SceneCbCall ==
    \E n \in 0..Len(inflight), att \in AttachedLists : SceneCbCalled(n, att)

\* line 371
SceneCbAcquire ==
    /\ cb.phase = "acquire"
    /\ MutexFree(mutex)
    /\ mutex' = "cb"
    /\ cb' = [cb EXCEPT !.phase = "events", !.before = collision,
                        !.att_before = attached]
    /\ UNCHANGED << ctlVars, objVars, inflight, obsVars, client, genVars, moveVars >>

\* lines 372-381: one turn of the loop over msg.world.collision_objects
SceneCbEvent ==
    /\ cb.phase = "events"
    /\ cb.i <= Len(cb.events)
    /\ collision' = ApplyEvent(collision, cb.events[cb.i])
    /\ cb' = [cb EXCEPT !.i = cb.i + 1]
    /\ UNCHANGED << ctlVars, attached, inflight, obsVars, mutex, client, genVars, moveVars >>

\* line 382, the loop over the collision objects being over
SceneCbClear ==
    /\ cb.phase = "events"
    /\ cb.i > Len(cb.events)
    /\ attached' = ResetList(attached)
    /\ cb' = [cb EXCEPT !.phase = "attached"]
    /\ UNCHANGED << ctlVars, collision, inflight, obsVars, mutex, client, genVars, moveVars >>

\* lines 383-385: one turn of the loop over the attached objects
SceneCbAttach ==
    /\ cb.phase = "attached"
    /\ cb.j <= Len(cb.att)
    /\ attached' = Append(attached, cb.att[cb.j])
    /\ cb' = [cb EXCEPT !.j = cb.j + 1]
    /\ UNCHANGED << ctlVars, collision, inflight, obsVars, mutex, client, genVars, moveVars >>

\* line 386
SceneCbRelease ==
    /\ cb.phase = "attached"
    /\ cb.j > Len(cb.att)
    /\ mutex' = "free"
    /\ cb' = NoCb
    /\ UNCHANGED << ctlVars, objVars, inflight, obsVars, client, genVars, moveVars >>

NextOM ==
    \/ ClientCall
    \/ GetAcquire
    \/ GetCopy
    \/ ClientTest
    \/ SceneCbCall
    \/ SceneCbAcquire
    \/ SceneCbEvent
    \/ SceneCbClear
    \/ SceneCbAttach
    \/ SceneCbRelease

SpecOM == Init /\ [][NextOM]_vars

\* the same with a client that calls addBox and remove only, more often
ClientCallTwice == ClientCalls(MaxCallsTwice, { "addBox", "remove" })

NextOMTwice ==
    \/ ClientCallTwice
    \/ GetAcquire
    \/ GetCopy
    \/ ClientTest
    \/ SceneCbCall
    \/ SceneCbAcquire
    \/ SceneCbEvent
    \/ SceneCbClear
    \/ SceneCbAttach
    \/ SceneCbRelease

SpecOMTwice == Init /\ [][NextOMTwice]_vars

\* the planning scene reports at least one of the commands in flight
FeedDelivers ==
    \E n \in 1..Len(inflight), att \in AttachedLists : SceneCbCalled(n, att)

\* sceneCb, once called, runs to its end
SceneCbRuns ==
    SceneCbAcquire \/ SceneCbEvent \/ SceneCbClear \/ SceneCbAttach \/ SceneCbRelease

\* both threads run; a thread blocked in acquire() gets the lock when it is
\* free again and again (the polling thread sleeps a second between two
\* takes of the lock)
FairSpecOM ==
    /\ SpecOM
    /\ SF_vars(FeedDelivers)
    /\ WF_vars(SceneCbRuns)
    /\ SF_vars(SceneCbAcquire)
    /\ SF_vars(GetAcquire)
    /\ WF_vars(GetCopy)
    /\ WF_vars(ClientTest)

(***************************************************************************)
(* The candidate generators taken alone (lines 88-144).  A consumer calls  *)
(* getGrasps or getPlaceLocations with the PoseStamped object pose_in and  *)
(* resumes the generator it got; it may call again at any time, dropping   *)
(* the generator it had.  g.grasp_pose (l.place_pose) is the object it was *)
(* called with, not a copy (lines 95, 125): what a generator writes into   *)
(* the orientation is written into pose_in.                                *)
(*   it.gen        the generator the consumer holds, or None               *)
(*   it.seen       what it has yielded, each candidate as it was at the    *)
(*                 moment of the yield (observed)                          *)
(*   it.prev_kind, it.prev   the same for the generator it held before     *)
(***************************************************************************)
\* the poses the generators are called with
Poses ==
    { transformPose(FIXED_FRAME, BoardPose(SQUARE_SIZE \div 2, SQUARE_SIZE \div 2, 30000)),
      transformPose(FIXED_FRAME, BoardPose(SQUARE_SIZE * 4, SQUARE_SIZE * 3, 30000)),
      [transformPose(FIXED_FRAME, BoardPose(SQUARE_SIZE, SQUARE_SIZE * 7, 30000))
          EXCEPT !.orientation = quaternion_from_euler(0, 117, 157)] }

InitGen ==
    /\ InitBut
    /\ pose_in \in Poses

\* the generator g, its candidate referring to the pose object p
Aliased(g, p) ==
    [g EXCEPT !.pose = p,
              !.obj = IF g.obj = None THEN None
                      ELSE IF g.kind = "grasp" THEN [g.obj EXCEPT !.grasp_pose = p]
                      ELSE [g.obj EXCEPT !.place_pose = p]]

\* the candidate o as the consumer reads it when it is yielded
Observed(kind, o) ==
    [id |-> o.id, orientation |-> PoseOf(kind, o).orientation,
     position |-> PoseOf(kind, o).position,
     quality |-> IF kind = "grasp" THEN o.grasp_quality ELSE None]

\* the candidates the consumer has kept from the generator it holds, read
\* now: every yield hands out the one object the generator created on its
\* first resumption (yield g, lines 106 and 118; yield l, lines 134 and 144)
Collected ==
    [k \in 1..Len(it.seen) |-> Observed(it.gen.kind, Aliased(it.gen, pose_in).obj)]

\* the candidates the consumer has kept from the generator it held before,
\* read now: that generator's object is as it last left it, but for its
\* pose, which is the pose object the generators share
CollectedBefore ==
    [k \in 1..Len(it.prev) |->
        [it.prev[Len(it.prev)] EXCEPT !.orientation = pose_in.orientation]]

\* the consumer calls getGrasps(pose_in) or getPlaceLocations(pose_in):
\* nothing of the body runs before the first resumption
GenCall ==
    /\ \E kind \in { "grasp", "place" } :
          it' = [gen |-> IF kind = "grasp" THEN getGrasps(pose_in)
                         ELSE getPlaceLocations(pose_in),
                 seen |-> << >>,
                 prev_kind |-> IF it.gen = None THEN "none" ELSE it.gen.kind,
                 prev |-> it.seen]
    /\ UNCHANGED << ctlVars, objVars, inflight, obsVars, omVars, pose_in, moveVars >>

\* next() on the generator: it runs to its next yield
GenResume ==
    /\ it.gen # None
    /\ ~ GenDone(it.gen)
    /\ LET g == GenNext(Aliased(it.gen, pose_in))
       IN /\ it' = [it EXCEPT !.gen = g,
                              !.seen = Append(@, Observed(g.kind, g.obj))]
          /\ pose_in' = PoseOf(g.kind, g.obj)
    /\ UNCHANGED << ctlVars, objVars, inflight, obsVars, omVars, moveVars >>

NextGen ==
    \/ GenCall
    \/ GenResume

SpecGen == InitGen /\ [][NextGen]_vars

(***************************************************************************)
(* moveToJointPosition alone (grasp_utilities.py lines 226-256 and         *)
(* arm_interface.py lines 49-81), and ArmInterface.moveToPose, which sends *)
(* on the same action client (arm_interface.py lines 83-133).  A caller    *)
(* calls the method of either class with any joints, positions and         *)
(* tolerance, or moveToPose with any pose, link and tolerance, and the     *)
(* action server answers with any status.                                  *)
(*   mv.phase     "idle", "wait" (blocked in wait_for_result), "returned"  *)
(*   mv.class     the class whose method is called                         *)
(*   mv.method    "moveToJointPosition" or "moveToPose"                    *)
(*   mv.joints, mv.positions, mv.tolerance, mv.start_state   the arguments *)
(*   mv.pose_stamped, mv.gripper_frame   the arguments of moveToPose       *)
(*   mv.plan_only ArmInterface.plan_only (PLAN_ONLY for MotionManager)     *)
(*   mv.sent      the goals the call has sent so far                       *)
(*   mv.result    what the action client's get_result holds                *)
(*   mv.returned  the value the call returned                              *)
(***************************************************************************)
\* the longest list of joints the caller passes
MaxJoints == 2

\* the joint names and the positions the caller picks from
MoveJointNames == { joint_names[1], joint_names[2] }
MovePositions == { joints_tucked[1], joints_tucked[2] }
MoveTolerances == { DefaultTolerance, "0.1" }

\* a RobotState message the caller passes as start_state
GivenRobotState == [joint_state |-> "given"]

\* the objects the method is called on, and the start_state argument
\* (MotionManager's method has none)
MoveCallers ==
    { [class |-> "MotionManager", plan_only |-> PLAN_ONLY, start_state |-> None] }
    \cup { [class |-> "ArmInterface", plan_only |-> po, start_state |-> st] :
               po \in BOOLEAN, st \in { None, GivenRobotState } }

\* lines 227-254: the goal is built and sent, up to wait_for_result
MoveCalled(c, joints, positions, tolerance) ==
    [phase |-> "wait", class |-> c.class, method |-> "moveToJointPosition",
     joints |-> joints, positions |-> positions,
     pose_stamped |-> None, gripper_frame |-> "none",
     tolerance |-> tolerance, start_state |-> c.start_state, plan_only |-> c.plan_only,
     sent |-> << IF c.class = "MotionManager"
                 THEN JointGoal(joints, positions, tolerance)
                 ELSE ArmJointGoal(joints, positions, tolerance,
                                   c.start_state, c.plan_only) >>,
     result |-> None, returned |-> None]

\* a call of moveToJointPosition(joints, positions, tolerance)
MoveCall ==
    /\ mv.phase \in { "idle", "returned" }
    /\ \E c \in MoveCallers, n \in 0..MaxJoints, tolerance \in MoveTolerances :
          \E joints \in [1..n -> MoveJointNames], positions \in [1..n -> MovePositions] :
             mv' = MoveCalled(c, joints, positions, tolerance)
    /\ UNCHANGED << ctlVars, objVars, inflight, obsVars, omVars, genVars >>

\* the poses, given in the frame of the board, and the links moveToPose is
\* called with
MovePoses ==
    { BoardPose(SQUARE_SIZE \div 2, SQUARE_SIZE \div 2, 30000),
      [BoardPose(SQUARE_SIZE, SQUARE_SIZE * 7, 30000)
          EXCEPT !.orientation = quaternion_from_euler(0, 117, 157)] }
MoveLinks == { GRIPPER_FRAME, "wrist_roll_link" }

\* arm_interface.py lines 85-131: the goal is built and sent, up to
\* wait_for_result
MovePoseCalled(c, pose_stamped, gripper_frame, tolerance) ==
    [phase |-> "wait", class |-> c.class, method |-> "moveToPose",
     joints |-> << >>, positions |-> << >>,
     pose_stamped |-> pose_stamped, gripper_frame |-> gripper_frame,
     tolerance |-> tolerance, start_state |-> None, plan_only |-> c.plan_only,
     sent |-> << ArmPoseGoal(pose_stamped, gripper_frame, tolerance, c.plan_only) >>,
     result |-> None, returned |-> None]

\* a call of ArmInterface.moveToPose(pose_stamped, gripper_frame, tolerance)
MovePoseCall ==
    /\ mv.phase \in { "idle", "returned" }
    /\ \E c \in MoveCallers, pose_stamped \in MovePoses, gripper_frame \in MoveLinks,
          tolerance \in MoveTolerances :
          /\ c.class = "ArmInterface"
          /\ c.start_state = None
          /\ mv' = MovePoseCalled(c, pose_stamped, gripper_frame, tolerance)
    /\ UNCHANGED << ctlVars, objVars, inflight, obsVars, omVars, genVars >>

\* the action server answers: wait_for_result returns and the call returns
\* get_result() (lines 255-256; arm_interface.py lines 80-81, 132-133)
MoveResult ==
    /\ mv.phase = "wait"
    /\ \E val \in ErrorCodes :
          mv' = [mv EXCEPT !.phase = "returned",
                           !.result = [error_code |-> val],
                           !.returned = IF mv.method = "moveToPose"
                                        THEN moveToPoseReturn([error_code |-> val])
                                        ELSE moveToJointPositionReturn([error_code |-> val])]
    /\ UNCHANGED << ctlVars, objVars, inflight, obsVars, omVars, genVars >>

NextMove ==
    \/ MoveCall
    \/ MovePoseCall
    \/ MoveResult

SpecMove == Init /\ [][NextMove]_vars

(***************************************************************************)
(* Vocabulary of the properties.                                           *)
(***************************************************************************)
\* the identifiers of the 21 candidates, in the order of section 4.1
CandidateIds ==
    << "direct_overhead",
       "0.05+-1.57", "0.05+-0.78", "0.05+0.0", "0.05+0.78", "0.05+1.57",
       "0.1+-1.57", "0.1+-0.78", "0.1+0.0", "0.1+0.78", "0.1+1.57",
       "0.2+-1.57", "0.2+-0.78", "0.2+0.0", "0.2+0.78", "0.2+1.57",
       "0.4+-1.57", "0.4+-0.78", "0.4+0.0", "0.4+0.78", "0.4+1.57" >>

\* the positions at which the action reported status 1 in the observed call
Ones == { k \in 1..Len(obs.results) : obs.results[k] }

\* m is a joint motion goal to the tucked configuration
IsTuckGoal(m) ==
    /\ m # None
    /\ m.kind = "move_group"
    /\ LET jc == m.goal.goal_constraints[1].joint_constraints
       IN /\ DOMAIN jc = 1..7
          /\ \A i \in 1..7 : /\ jc[i].joint_name = joint_names[i]
                             /\ jc[i].position = joints_tucked[i]

\* the activations of execute: those running and the one that just returned
Activations ==
    { stack[i] : i \in 1..Len(stack) } \cup (IF ret.valid THEN { ret.frame } ELSE { })

\* the destination square of the activation's move holds a piece
DestOccupied(f) == toPosition(SubSeq(f.move, 3, 4)) \in DOMAIN board.pieces

\* the log of activation f has the entry << site, what >>
Did(f, site, what) == \E i \in 1..Len(f.log) : f.log[i] = << site, what >>

\* the number of entries << site, what >> in the log of f
Count(f, site, what) ==
    Cardinality({ i \in 1..Len(f.log) : f.log[i] = << site, what >> })

\* the placement pose of section 4.5 for the destination of move, in
\* half squares: seen from white, column c and rank r are at
\* (2c + 1, 2r - 1); seen from black the board is turned round
ExpectedPose(move, side, z) ==
    LET c == toPosition(SubSeq(move, 3, 4))[1]
        r == toPosition(SubSeq(move, 3, 4))[2]
        h == 28575
    IN IF side = WHITE
       THEN [position |-> [x |-> ((2 * c) + 1) * h, y |-> ((2 * r) - 1) * h, z |-> z]]
       ELSE [position |-> [x |-> (15 - (2 * c)) * h, y |-> (17 - (2 * r)) * h, z |-> z]]

(***************************************************************************)
(* C1.  A pickup or place call whose action first reports status 1 on the  *)
(* k-th candidate has made exactly k goal submissions and returns True; one*)
(* whose action reports a non-1 status for all 21 candidates has made      *)
(* exactly 21 submissions and returns False.                               *)
(***************************************************************************)
C1_RetryCounts ==
    obs.ret # "none" =>
        /\ obs.kind \in { "pickup", "place" }
        /\ Len(obs.results) = Len(obs.sent)
        /\ Ones # { } =>
              /\ obs.ret = "True"
              /\ \A k \in Ones : (\A j \in Ones : k <= j) => Len(obs.sent) = k
        /\ Ones = { } =>
              /\ obs.ret = "False"
              /\ Len(obs.sent) = 21

\* a place call that succeeded on its last candidate
C1_Witness ==
    /\ obs.kind = "place"
    /\ obs.ret = "True"
    /\ Len(obs.sent) = 21
    /\ Ones = { 21 }

(***************************************************************************)
(* C2.  Within one pickup or place call the goals are submitted one at a   *)
(* time in the generator's order: the i-th goal carries the i-th           *)
(* candidate's identifier, no identifier is submitted twice, a goal is     *)
(* submitted only once the result of the previous one is in, and none is   *)
(* submitted after a result with status 1.                                 *)
(***************************************************************************)
C2_SequentialInOrder ==
    obs.kind # "none" =>
        /\ Len(obs.sent) <= Len(CandidateIds)
        /\ \A i \in 1..Len(obs.sent) : obs.sent[i] = CandidateIds[i]
        /\ \A i, j \in 1..Len(obs.sent) : i # j => obs.sent[i] # obs.sent[j]
        /\ Len(obs.results) <= Len(obs.sent)
        /\ Len(obs.sent) <= Len(obs.results) + 1
        /\ (pc \in { "pickup", "place" }) <=> (Len(obs.sent) = Len(obs.results) + 1)
        /\ \A i \in Ones : Len(obs.sent) = i
        /\ pc = "pickup" =>
              last_ext.goal.possible_grasps[1].id = CandidateIds[Len(obs.sent)]
        /\ pc = "place" =>
              last_ext.goal.place_locations[1].id = CandidateIds[Len(obs.sent)]

\* a pickup call waiting for the result of its 21st goal
C2_Witness ==
    /\ pc = "pickup"
    /\ obs.kind = "pickup"
    /\ Len(obs.sent) = 21
    /\ Len(obs.results) = 20
    /\ last_ext.goal.possible_grasps[1].id = "0.4+1.57"

(***************************************************************************)
(* C3.  When the destination square holds a piece, execute attempts the    *)
(* captured piece's relocation before the primary sub-move; when that      *)
(* relocation fails (its pickup or its place fails on all candidates)      *)
(* nothing is issued for the moving piece, the success flag is False, the  *)
(* arm is tucked and execute returns no destination pose.                  *)
(***************************************************************************)
\* the capture relocation of activation f has failed: its pickup or its
\* place has been refused for all 21 candidates
CaptureFailed(f) ==
    \/ Did(f, "capture", "pickup_failed")
    \/ Did(f, "capture", "place_failed")

C3_CaptureFirst ==
    \A f \in Activations :
        DestOccupied(f) =>
            /\ f.log # << >> => f.log[1] = << "capture", "world" >>
            /\ \A i \in 1..Len(f.log) :
                  f.log[i][1] \in { "primary", "extra" } =>
                      \E j \in 1..(i - 1) : f.log[j] = << "capture", "ret_true" >>
            /\ CaptureFailed(f) =>
                  /\ \A i \in 1..Len(f.log) : f.log[i][1] = "capture"
                  /\ ~ success
                  /\ f.site = "tuck"
                  /\ f.result = None
                  /\ (ret.valid /\ ret.frame = f) =>
                        /\ ret.value = None
                        /\ IsTuckGoal(last_ext)

(***************************************************************************)
(* C4.  When the pickup of the primary sub-move fails on all candidates,   *)
(* execute submits no place goal for that sub-move, sets the success flag  *)
(* to False, tucks the arm, executes no castling extra and returns no      *)
(* destination pose.                                                       *)
(***************************************************************************)
C4_PrimaryPickupFails ==
    \A f \in Activations :
        Did(f, "primary", "pickup_failed") =>
            /\ ~ Did(f, "primary", "place")
            /\ ~ Did(f, "extra", "call")
            /\ ~ f.extra.called
            /\ ~ success
            /\ f.site = "tuck"
            /\ f.result = None
            /\ (ret.valid /\ ret.frame = f) =>
                  /\ ret.value = None
                  /\ IsTuckGoal(last_ext)

\* a castling move has returned after the pickup of its king failed 21 times
C4_Witness ==
    /\ pc = "idle"
    /\ ret.valid
    /\ ret.frame.move \in DOMAIN castling_extras
    /\ Did(ret.frame, "primary", "pickup_failed")
    /\ ret.value = None

(***************************************************************************)
(* C5.  When the place step of a sub-move fails on all 21 candidates the   *)
(* sub-move is reported as failed: execute sets the success flag to False, *)
(* tucks the arm and returns no destination pose.                          *)
(***************************************************************************)
C5_PlaceFailureReported ==
    (ret.valid /\ (\/ Did(ret.frame, "primary", "place_failed")
                   \/ Did(ret.frame, "capture", "place_failed"))) =>
        /\ ~ success
        /\ ret.value = None
        /\ IsTuckGoal(last_ext)

(***************************************************************************)
(* C6.  When a move has a castling extra, its primary sub-move succeeds    *)
(* and the execution of the extra fails, the outer execute still tucks the *)
(* arm and returns the primary move's destination pose.                    *)
(***************************************************************************)
C6_ExtraFailureNoAbort ==
    (/\ ret.valid
     /\ ret.frame.move \in DOMAIN castling_extras
     /\ Did(ret.frame, "primary", "ret_true")) =>
        /\ ret.frame.extra.called
        /\ ret.value = ExpectedPose(ret.frame.move, board.side, 25000)
        /\ IsTuckGoal(last_ext)

\* a castling move has returned after its extra returned no pose
C6_Witness ==
    /\ pc = "idle"
    /\ ret.valid
    /\ ret.frame.extra.called
    /\ ret.frame.extra.value = None
    /\ ret.value # None

(***************************************************************************)
(* C7.  A failure of the castling extra does not mark the operation        *)
(* failed: when the flag was True on entry and the capture (if any) and    *)
(* primary sub-moves succeed, the flag is still True after the call even   *)
(* when the extra fails.                                                   *)
(***************************************************************************)
C7_ExtraFailureKeepsFlag ==
    (/\ ret.valid
     /\ pc = "idle"
     /\ ret.frame.success0
     /\ Did(ret.frame, "primary", "ret_true")
     /\ ret.frame.extra.called
     /\ ret.frame.extra.value = None) =>
        success

(***************************************************************************)
(* C8.  Every execute call, on every return path, issues a joint motion    *)
(* goal to the tucked configuration as its last external action before it  *)
(* returns.                                                                *)
(***************************************************************************)
C8_TuckLast ==
    /\ ret.valid => IsTuckGoal(last_ext)
    /\ \A f \in Activations : f.site = "tuck" => IsTuckGoal(last_ext)

\* the recursive call for a castling extra has returned a pose
C8_Witness ==
    /\ pc = "extra_ret"
    /\ ret.valid
    /\ ret.depth = 2
    /\ ret.value # None

(***************************************************************************)
(* C9 as claimed.  Between top-level execute calls the success flag is     *)
(* False exactly when the most recent call returned no destination pose.   *)
(***************************************************************************)
C9_FlagTracksLastCall ==
    (pc = "idle" /\ ret.valid) => (~ success <=> ret.value = None)

(***************************************************************************)
(* C9 as amended.  Between top-level execute calls the success flag is     *)
(* False whenever the most recent call returned no destination pose, and   *)
(* it is False exactly when some execute call since construction, a        *)
(* top-level one or the recursive one for a castling extra, returned no    *)
(* destination pose: execute never sets the flag back to True.             *)
(***************************************************************************)
C9_FlagSticky ==
    pc = "idle" =>
        /\ (ret.valid /\ ret.value = None) => ~ success
        /\ ~ success <=> none_returned

\* a call that returned a pose, after an earlier call failed
C9_Witness ==
    /\ pc = "idle"
    /\ ret.valid
    /\ ret.value # None
    /\ ~ ret.frame.success0
    /\ ~ success

(***************************************************************************)
(* C10.  For a move whose destination square is empty and which has no     *)
(* castling extra, execute attempts exactly one sub-move, the primary one  *)
(* (one world update, one pickup call, at most one place call); when that  *)
(* sub-move succeeds execute returns the placement pose of the destination *)
(* (column, rank) for the side to move.                                    *)
(***************************************************************************)
C10_SimpleMove ==
    (/\ ret.valid
     /\ ~ DestOccupied(ret.frame)
     /\ ret.frame.move \notin DOMAIN castling_extras) =>
        LET f == ret.frame
        IN /\ \A i \in 1..Len(f.log) : f.log[i][1] = "primary"
           /\ Count(f, "primary", "world") = 1
           /\ Count(f, "primary", "pickup") = 1
           /\ Count(f, "primary", "place") <= 1
           /\ ~ f.extra.called
           /\ Did(f, "primary", "ret_true") =>
                 ret.value = ExpectedPose(f.move, board.side, 25000)
           /\ ~ Did(f, "primary", "ret_true") => ret.value = None

\* black's e7e5 has returned a pose
C10_Witness ==
    /\ pc = "idle"
    /\ ret.valid
    /\ board.side = BLACK
    /\ ret.frame.move = << "e", "7", "e", "5" >>
    /\ Did(ret.frame, "primary", "place_ok")
    /\ ret.value # None

(***************************************************************************)
(* Vocabulary of the properties of the ObjectManager.                      *)
(***************************************************************************)
\* how often x is in the list l
CountIn(l, x) == Cardinality({ k \in 1..Len(l) : l[k] = x })

\* how often x is in a list that held it c times, once the events have been
\* applied: an add puts one more in, a remove takes one out if there is one
RECURSIVE CountAfter(_, _, _)
CountAfter(c, events, x) ==
    IF events = << >> THEN c
    ELSE LET e == Head(events)
             c1 == IF e.id # x THEN c
                   ELSE IF e.operation = "ADD" THEN c + 1
                   ELSE IF c > 0 THEN c - 1 ELSE 0
         IN CountAfter(c1, Tail(events), x)

\* sceneCb has run both its loops and is about to release the mutex
CbAtEnd == cb.phase = "attached" /\ cb.j > Len(cb.att)

\* the event sceneCb is about to process
CbEvent == cb.events[cb.i]

\* sceneCb is about to process a remove event for an identifier that is not
\* in _collision
CbAbsentRemove ==
    /\ cb.phase = "events"
    /\ cb.i <= Len(cb.events)
    /\ CbEvent.operation = "REMOVE"
    /\ ~ InList(CbEvent.id, collision)

(***************************************************************************)
(* C11.  addBox(name) returns only with name in _collision and             *)
(* remove(name) only with name not in it; no step of the calling thread    *)
(* changes _collision, and a name comes into it only in the step in which  *)
(* sceneCb, holding the mutex, processes an add event for that name.       *)
(***************************************************************************)
C11_ReturnsOnMembership ==
    /\ [](client.last # None =>
            /\ client.last.op = "addBox" => client.last.name \in client.last.members
            /\ client.last.op = "remove" => client.last.name \notin client.last.members)
    /\ [][ /\ client' # client => collision' = collision
           /\ \A x \in Names :
                 (~ InList(x, collision) /\ InList(x, collision')) =>
                     /\ mutex = "cb"
                     /\ cb.phase = "events"
                     /\ cb.i <= Len(cb.events)
                     /\ CbEvent = [operation |-> "ADD", id |-> x] ]_vars

\* addBox('table') has returned after the add was published twice: one of
\* the two is still in flight
C11_Witness ==
    /\ client.phase = "idle"
    /\ client.last # None
    /\ client.last.op = "addBox"
    /\ client.last.name = "table"
    /\ client.last.members = { "table" }
    /\ inflight = << [operation |-> "ADD", id |-> "table"] >>

(***************************************************************************)
(* C12.  With a feed that goes on reporting the commands in flight, every  *)
(* call of addBox and of remove returns.  Until it does, each turn of its  *)
(* loop publishes the command once more, and the call does not return      *)
(* while the copy it tests does not show the membership it waits for: no   *)
(* count of turns ends the loop.                                           *)
(***************************************************************************)
C12_PollUntilDelivered ==
    /\ (client.phase # "idle" /\ client.op \in { "addBox", "remove" })
          ~> (client.phase = "idle")
    /\ [][ /\ (client.phase = "test" /\ client'.phase = "get") =>
                 /\ client'.op = client.op /\ client'.name = client.name
                 /\ Len(inflight) < MaxInFlight =>
                       inflight' = Append(inflight,
                                      [operation |-> IF client.op = "addBox"
                                                     THEN "ADD" ELSE "REMOVE",
                                       id |-> client.name])
           /\ (client.phase # "idle" /\ client'.phase = "idle") =>
                 /\ client.phase = "test"
                 /\ client.op = "addBox" => InList(client.name, client.l)
                 /\ client.op = "remove" => ~ InList(client.name, client.l) ]_vars

\* addBox('piece') is in its loop and has published the add a second time
C12_Witness ==
    /\ client.phase = "get"
    /\ client.op = "addBox"
    /\ client.name = "piece"
    /\ collision = << >>
    /\ inflight = << [operation |-> "ADD", id |-> "piece"],
                     [operation |-> "ADD", id |-> "piece"] >>

(***************************************************************************)
(* C13.  sceneCb and a getter are never both between their acquire and     *)
(* their release; whoever is there holds the mutex; every step that        *)
(* changes _collision or _attached is taken by sceneCb holding the mutex;  *)
(* and the copy a getter returns is the list as the last whole snapshot    *)
(* left it, never a list some events of a snapshot have been applied to    *)
(* and others not yet.                                                     *)
(***************************************************************************)
C13_MutualExclusion ==
    /\ [](/\ ~ (CbInside /\ ReaderInside)
          /\ CbInside <=> mutex = "cb"
          /\ ReaderInside <=> mutex = "reader"
          /\ client.phase = "test" => client.l = client.at)
    /\ [][ (collision' # collision \/ attached' # attached) =>
              /\ CbInside
              /\ mutex = "cb" /\ mutex' = "cb"
              /\ client' = client ]_vars

\* a getter is copying _collision while sceneCb, called with a snapshot of
\* two events, waits for the mutex
C13_Witness ==
    /\ ReaderInside
    /\ client.op = "addBox"
    /\ cb.phase = "acquire"
    /\ Len(cb.events) = 2

(***************************************************************************)
(* C14.  A remove event for an identifier that is not in _collision leaves *)
(* the list as it is and sceneCb goes on to the next event; at the end of  *)
(* the call every other event of the snapshot has been applied, _attached  *)
(* is the snapshot's attached list, and the mutex is released.             *)
(***************************************************************************)
C14_AbsentRemoveIgnored ==
    /\ [](CbAtEnd =>
            /\ \A x \in Names :
                  CountIn(collision, x) = CountAfter(CountIn(cb.before, x), cb.events, x)
            /\ attached = cb.att)
    /\ [][ /\ (CbAbsentRemove /\ cb' # cb) =>
                 /\ collision' = collision
                 /\ cb'.phase = "events"
                 /\ cb'.i = cb.i + 1
           /\ (CbAtEnd /\ cb' # cb) =>
                 /\ cb'.phase = "idle"
                 /\ mutex' = "free" ]_vars

\* sceneCb is at its end after a snapshot whose first event was a remove of
\* 'piece' from a list without it and whose second event, an add, has been
\* applied
C14_Witness ==
    /\ CbAtEnd
    /\ cb.before = << >>
    /\ cb.events = << [operation |-> "REMOVE", id |-> "piece"],
                      [operation |-> "ADD", id |-> "piece"] >>
    /\ collision = << "piece" >>
    /\ cb.att = << "piece" >>
    /\ attached = << "piece" >>

(***************************************************************************)
(* C15.  When sceneCb has processed a snapshot, _attached is exactly the   *)
(* list of attached identifiers of that snapshot, whatever it held when    *)
(* sceneCb was called.                                                     *)
(***************************************************************************)
C15_AttachedReplaced ==
    /\ CbAtEnd => attached = cb.att
    /\ (cb.phase = "attached" /\ cb.j <= Len(cb.att)) =>
          attached = SubSeq(cb.att, 1, cb.j - 1)

\* 'piece' was attached when sceneCb was called with a snapshot in which
\* nothing is attached
C15_Witness ==
    /\ CbAtEnd
    /\ cb.att_before = << "piece" >>
    /\ cb.att = << >>
    /\ attached = << >>

(***************************************************************************)
(* C16.  When the same call, addBox(name) or remove(name), has returned    *)
(* twice in a row, the members of _collision are those the list had when   *)
(* the first of the two returned, and they stay so while the events still  *)
(* in flight are processed.                                                *)
(***************************************************************************)
C16_Idempotent ==
    (client.phase = "idle" /\ client.twice /\ client.last.op \in { "addBox", "remove" }) =>
        /\ client.last.members = client.first
        /\ Members(collision) = client.first

\* addBox('piece') has returned twice, the first call having found 'piece'
\* not listed, and then remove('piece') has returned twice, the first call
\* having found it listed; nothing is in flight
C16_Witness ==
    /\ client.phase = "idle"
    /\ client.twice
    /\ client.last.op = "remove"
    /\ client.last.name = "piece"
    /\ client.first = { }
    /\ [op |-> "addBox", name |-> "piece", held |-> FALSE] \in client.pairs
    /\ [op |-> "remove", name |-> "piece", held |-> TRUE] \in client.pairs
    /\ inflight = << >>
    /\ cb.phase = "idle"

(***************************************************************************)
(* Vocabulary of the properties of the generators.                         *)
(***************************************************************************)
\* the pitch offset and the yaw of the candidates 2 .. 21, in centi-radians
ExpectedPitch ==
    << 5, 5, 5, 5, 5, 10, 10, 10, 10, 10, 20, 20, 20, 20, 20, 40, 40, 40, 40, 40 >>
ExpectedYaw ==
    << -157, -78, 0, 78, 157, -157, -78, 0, 78, 157,
       -157, -78, 0, 78, 157, -157, -78, 0, 78, 157 >>

\* the smaller of two numbers
Min(a, b) == IF a < b THEN a ELSE b

\* the kind of the generator the consumer holds
Kind == IF it.gen = None THEN "none" ELSE it.gen.kind

\* the generator the consumer holds has nothing more to yield
Exhausted == it.gen # None /\ GenDone(it.gen)

(***************************************************************************)
(* C17.  getGrasps yields exactly 21 candidates: the first is              *)
(* direct_overhead, straight down, with quality 1.0; the i-th of the other *)
(* 20 has the identifier and the orientation of the i-th (pitch offset,    *)
(* yaw) pair, pitch offsets 0.05, 0.1, 0.2, 0.4 outside and yaws -1.57,    *)
(* -0.78, 0.0, 0.78, 1.57 inside; each of the 20 has a quality below 1.0.  *)
(***************************************************************************)
C17_GraspSequence ==
    Kind = "grasp" =>
        /\ Len(it.seen) = it.gen.k
        /\ Len(it.seen) <= 21
        /\ Exhausted <=> Len(it.seen) = 21
        /\ \A i \in 1..Len(it.seen) :
              /\ it.seen[i].id = CandidateIds[i]
              /\ it.seen[i].position = it.gen.pose.position
              /\ i = 1 => /\ it.seen[i].orientation = << 0, 157, 0 >>
                          /\ it.seen[i].quality = 10000
              /\ i > 1 => /\ it.seen[i].orientation =
                                << 0, 157 - ExpectedPitch[i - 1], ExpectedYaw[i - 1] >>
                          /\ it.seen[i].quality < it.seen[1].quality

\* a grasp generator has been run to its end
C17_Witness ==
    /\ Kind = "grasp"
    /\ Exhausted
    /\ Len(it.seen) = 21
    /\ it.seen[21].id = "0.4+1.57"

(***************************************************************************)
(* C18.  Each grasp candidate has a quality no higher than the candidate   *)
(* yielded before it.                                                      *)
(***************************************************************************)
C18_QualityNonIncreasing ==
    Kind = "grasp" =>
        \A i \in 1..(Len(it.seen) - 1) : it.seen[i + 1].quality <= it.seen[i].quality

(***************************************************************************)
(* C19.  getPlaceLocations yields exactly 21 candidates, and the i-th has  *)
(* the identifier and the orientation of the i-th candidate getGrasps      *)
(* yields for the same pose.                                               *)
(***************************************************************************)
C19_PlaceAsGrasp ==
    /\ Kind = "place" =>
          /\ Len(it.seen) = it.gen.k
          /\ Len(it.seen) <= 21
          /\ Exhausted <=> Len(it.seen) = 21
    /\ (Kind # "none" /\ it.prev_kind # "none" /\ Kind # it.prev_kind) =>
          \A i \in 1..Min(Len(it.seen), Len(it.prev)) :
              /\ it.seen[i].id = it.prev[i].id
              /\ it.seen[i].orientation = it.prev[i].orientation
              /\ it.seen[i].position = it.prev[i].position

\* both generators have been run to their end on the same pose, getGrasps
\* first
C19_Witness ==
    /\ Kind = "place"
    /\ it.prev_kind = "grasp"
    /\ Len(it.prev) = 21
    /\ Len(it.seen) = 21

(***************************************************************************)
(* C20.  A second call of the same generator function with the same pose,  *)
(* made when the first generator has yielded some or all of its            *)
(* candidates, yields the same identifiers, orientations and qualities in  *)
(* the same order, each read when it is yielded.                           *)
(***************************************************************************)
C20_Restartable ==
    (Kind # "none" /\ Kind = it.prev_kind) =>
        \A i \in 1..Min(Len(it.seen), Len(it.prev)) : it.seen[i] = it.prev[i]

\* getGrasps was called again after seven candidates of the first call, and
\* the second generator has been run to its end
C20_Witness ==
    /\ Kind = "grasp"
    /\ it.prev_kind = "grasp"
    /\ Len(it.prev) = 7
    /\ Len(it.seen) = 21


(***************************************************************************)
(* C21.  moveToJointPosition submits exactly one motion goal per call,     *)
(* containing one joint constraint per joint name with joint i paired with *)
(* position i and the given tolerance above and below, waits for its       *)
(* result, and returns that result unchanged whether it denotes success or *)
(* failure; it never resubmits after a failed result.                      *)
(***************************************************************************)
\* the goal g constrains joint i of `joints` to position i of `positions`
\* within `tolerance` either way, and nothing else
ConstrainsJoints(g, joints, positions, tolerance) ==
    /\ Len(g.goal_constraints) = 1
    /\ LET jc == g.goal_constraints[1].joint_constraints
       IN /\ DOMAIN jc = 1..Len(joints)
          /\ \A i \in 1..Len(joints) :
                /\ jc[i].joint_name = joints[i]
                /\ jc[i].position = positions[i]
                /\ jc[i].tolerance_above = tolerance
                /\ jc[i].tolerance_below = tolerance

\* C21: a call in progress or returned has sent one goal, the goal pairs
\* joint i with position i under the given tolerance, the value returned is
\* the result received, and the step that receives a result (of any status)
\* ends the call without sending anything more
C21_OneGoalResultReturned ==
    /\ [](mv.method = "moveToJointPosition" =>
            /\ Len(mv.sent) = 1
            /\ ConstrainsJoints(mv.sent[1], mv.joints, mv.positions, mv.tolerance)
            /\ (mv.phase = "returned" => mv.returned = mv.result))
    /\ [][mv.method = "moveToJointPosition" /\ mv.phase = "wait"
             => /\ mv'.phase = "returned"
                /\ mv'.sent = mv.sent
                /\ mv'.returned = mv'.result]_vars

\* a call with two different joints at two different positions has returned
\* a failed result
C21_Witness ==
    /\ mv.method = "moveToJointPosition"
    /\ mv.phase = "returned"
    /\ mv.result.error_code # 1
    /\ mv.returned = mv.result
    /\ Len(mv.joints) = 2
    /\ mv.joints[1] # mv.joints[2]
    /\ mv.positions[1] # mv.positions[2]


(***************************************************************************)
(* C22.  A candidate obtained from a generator keeps its identifier and    *)
(* orientation while that generator, or another generator created from the *)
(* same input pose, is advanced further; collecting one whole sequence     *)
(* yields 21 candidates with pairwise distinct identifiers whose first is  *)
(* direct_overhead.                                                        *)
(***************************************************************************)
\* C22: every candidate kept from the generator in hand, and from the one
\* held before it, reads as it did when it was yielded, and the candidates
\* collected from an exhausted generator have 21 different identifiers
\* starting with direct_overhead
C22_CandidatesKept ==
    /\ \A k \in 1..Len(it.seen) :
          /\ Collected[k].id = it.seen[k].id
          /\ Collected[k].orientation = it.seen[k].orientation
    /\ \A k \in 1..Len(it.prev) :
          /\ CollectedBefore[k].id = it.prev[k].id
          /\ CollectedBefore[k].orientation = it.prev[k].orientation
    /\ Exhausted =>
          /\ Len(Collected) = 21
          /\ Collected[1].id = "direct_overhead"
          /\ \A j, k \in 1..Len(Collected) : j # k => Collected[j].id # Collected[k].id


(***************************************************************************)
(* C23.  The known-free collection behaves as a set under the feed         *)
(* handler: if the last processed event for an identifier is a remove      *)
(* event then that identifier is not a member, no matter how many add      *)
(* events for the same identifier were processed before it.                *)
(***************************************************************************)
\* C23: the step of sceneCb that processes a remove event leaves the
\* event's identifier out of _collision (membership then stays as it is
\* until the next event for that identifier is processed)
C23_RemovedIsAbsent ==
    [][(/\ cb.phase = "events"
        /\ cb.i <= Len(cb.events)
        /\ cb'.i = cb.i + 1
        /\ CbEvent.operation = "REMOVE")
       => ~ InList(CbEvent.id, collision')]_vars


(***************************************************************************)
(* C24.  With the feed delivering the events of published commands after   *)
(* arbitrary delay and concurrently with the control thread, at the moment *)
(* the first pickup goal of any sub-move is submitted both 'table' and     *)
(* 'piece' are members of the known-free collection.                       *)
(***************************************************************************)
\* C24: the step of the control thread that leaves the poll loop of addBox
\* and submits a pickup goal submits the first goal of its pickup call and
\* is taken with 'table' and 'piece' both in _collision
C24_MembersAtPickup ==
    [][(pc # "pickup" /\ pc' = "pickup")
       => /\ pc = "addBox"
          /\ Len(obs'.sent) = 1
          /\ InList("table", collision')
          /\ InList("piece", collision')]_vars

\* the first pickup goal of the primary sub-move of a capturing move has
\* been submitted, after the sub-move for the captured piece, with the feed
\* still behind
C24_Witness ==
    /\ pc = "pickup"
    /\ Len(obs.sent) = 1
    /\ obs.results = << >>
    /\ Top(Cur).site = "primary"
    /\ Did(Top(Cur), "capture", "pickup_ok")
    /\ inflight # << >>
    /\ InList("table", collision)
    /\ InList("piece", collision)


(***************************************************************************)
(* C25.  Each sub-move performs its steps in the fixed order remove        *)
(* 'table', add 'table', remove 'piece', add 'piece', pickup, place: each  *)
(* step starts only after the previous one has returned, no pickup goal is *)
(* submitted before the add of 'piece' has returned, and no place goal is  *)
(* submitted unless the pickup of the same sub-move returned success.      *)
(***************************************************************************)
\* the call move_piece is in, "none" outside move_piece
Stage == IF mp = None THEN "none" ELSE mp.step

\* the changes of stage: those inside a sub-move, its start and its ends
StageOrder ==
    { << "rm_table", "add_table" >>, << "add_table", "rm_piece" >>,
      << "rm_piece", "add_piece" >>, << "add_piece", "pickup" >>,
      << "pickup", "sleep" >>, << "sleep", "place" >>,
      << "none", "rm_table" >>, << "place", "rm_table" >>,
      << "pickup", "none" >>, << "place", "none" >> }

\* the one call the control thread is blocked in is the one of its stage,
\* and the last message it sent out is the one that call sends
StageAt ==
    /\ pc = "remove" =>
          /\ Stage \in { "rm_table", "rm_piece" }
          /\ om.name = (IF Stage = "rm_table" THEN "table" ELSE "piece")
          /\ last_ext = [kind |-> "collision_object", operation |-> "REMOVE",
                         id |-> om.name]
    /\ pc = "addBox" =>
          /\ Stage \in { "add_table", "add_piece" }
          /\ om.name = (IF Stage = "add_table" THEN "table" ELSE "piece")
          /\ last_ext = [kind |-> "collision_object", operation |-> "ADD",
                         id |-> om.name]
    /\ pc = "pickup" =>
          /\ Stage = "pickup"
          /\ last_ext.kind = "pickup"
          /\ last_ext.goal.target_name = "piece"
    /\ pc = "sleep" => Stage = "sleep" /\ last_ext.kind = "pickup"
    /\ pc = "place" =>
          /\ Stage = "place"
          /\ last_ext.kind = "place"
          /\ last_ext.goal.attached_object_name = "piece"
          /\ Did(Top(Cur), Top(Cur).site, "pickup_ok")
    /\ pc \in { "idle", "tuck", "untuck", "extra_ret" } => Stage = "none"

\* C25: the stages follow one another in the fixed order, the loop of a
\* remove or an addBox is left only with its name out of or in the list, a
\* pickup goal is first submitted on leaving the loop of the add of
\* 'piece', and a place goal only after the pickup returned success
C25_FixedOrder ==
    /\ [] StageAt
    /\ [][/\ Stage' # Stage => << Stage, Stage' >> \in StageOrder
          /\ (Stage' # Stage /\ pc = "remove") => ~ InList(om.name, collision)
          /\ (Stage' # Stage /\ pc = "addBox") => InList(om.name, collision)
          /\ (pc # "pickup" /\ pc' = "pickup") =>
                 Stage = "add_piece" /\ InList("piece", collision)
          /\ (pc # "place" /\ pc' = "place") =>
                 /\ pc = "sleep"
                 /\ obs.kind = "pickup"
                 /\ obs.ret = "True"]_vars

\* the second place goal of the primary sub-move of a capturing move has
\* been submitted: both sub-moves have gone through the stages
C25_Witness ==
    /\ pc = "place"
    /\ Stage = "place"
    /\ Len(obs.sent) = 2
    /\ Top(Cur).site = "primary"
    /\ Did(Top(Cur), "capture", "place")
    /\ Did(Top(Cur), "primary", "pickup_ok")


(***************************************************************************)
(* C26.  Provided the castling-extra of a move is not itself a key of the  *)
(* castling-extras map, a top-level execute call terminates with recursion *)
(* depth at most 2 (the move and its castling-extra), performs at most one *)
(* capture relocation before each primary sub-move, and so performs a      *)
(* bounded number of sub-moves and at most 21 pickup and 21 place          *)
(* submissions per sub-move.                                               *)
(***************************************************************************)
\* (No value of castling_extras is one of its keys: the proviso holds of the
\* map of the model.)
\* the bounds on what a call of execute does: at most two activations at a
\* time, the inner one making no recursive call; per activation at most one
\* capture relocation, one primary sub-move (so at most four sub-moves for a
\* top-level call) and one recursive call; at most 21 goals per pickup or
\* place call
Bounded ==
    /\ Len(stack) <= 2
    /\ Len(stack) = 2 => ~ Did(stack[2], "extra", "call")
    /\ \A f \in Activations :
          /\ Count(f, "capture", "world") <= 1
          /\ Count(f, "primary", "world") <= 1
          /\ Count(f, "extra", "call") <= 1
          /\ Count(f, "capture", "pickup") <= 1
          /\ Count(f, "primary", "pickup") <= 1
          /\ Count(f, "capture", "place") <= 1
          /\ Count(f, "primary", "place") <= 1
          /\ \A i \in 1..Len(f.log) :
                f.log[i][2] = "world" => f.log[i][1] \in { "capture", "primary" }
    /\ Len(obs.sent) <= 21

\* the planning scene goes on reporting the commands in flight (the topic is
\* empty again and again) and the action servers answer every goal (the
\* control thread is out of wait_for_result again and again)
Served ==
    /\ []<>(inflight = << >>)
    /\ []<>(pc \notin { "pickup", "place", "tuck", "untuck" })

\* every call returns: whenever the control thread is inside a call it is
\* back with the caller later, that is, it is with the caller again and again
Terminates == []<>(pc = "idle")

\* C26 as stated: the bounds hold and every call of execute returns
C26_BoundedAndTerminates ==
    /\ Bounded
    /\ [][Bounded']_vars
    /\ Terminates

\* C26 amended: the bounds hold, and every call of execute returns if the
\* planning scene and the action servers go on answering
C26_BoundedAndTerminatesIfServed ==
    /\ Bounded
    /\ [][Bounded']_vars
    /\ (Served => Terminates)

\* a top-level call for a castling move has returned, its recursive call
\* having been made and having returned
C26_Witness ==
    /\ pc = "idle"
    /\ ret.valid
    /\ ret.depth = 1
    /\ HasExtra(ret.frame.move)
    /\ ret.frame.extra.called
    /\ Count(ret.frame, "primary", "world") = 1
    /\ Count(ret.frame, "extra", "call") = 1

=============================================================================
